---- MODULE Spec2Model ----
(***************************************************************************)
(* A model of the text-to-PNG route handler                                *)
(* (src/app/api/text2png.png/route.ts): the font registry                  *)
(* (registerLocalFont and its module-level cache), the markup parser       *)
(* (parseText) and the GET handler's measure / size / draw pipeline.       *)
(*                                                                         *)
(* Strings that the code indexes or scans (the text, the numeric query     *)
(* parameters) are sequences of one-character strings; strings that the    *)
(* code only concatenates and compares (font families, paths) are strings. *)
(***************************************************************************)
EXTENDS Integers, Sequences, FiniteSets, TLC

\* ------------------------------------------------------------------ bounds
\* Longest input string of the parser specification.
MaxLen == 8
\* Most requests the host holds accepted but not yet handled.
MaxPending == 2
\* Largest factor the scale is multiplied by when heights are compared.
MaxFactor == 3

\* ------------------------------------------------------------- JS strings
\* All character sequences over alphabet A of length at most n.
StringsUpTo(A, n) == UNION {[1..k -> A] : k \in 0..n}

\* ---------------------------------------------------------------- parseText
\* The delimiter of text.split(/__/).
Delimiter == <<"_", "_">>

\* Whether the regular expression /__/ matches s at position i.
MatchesAt(s, i) ==
    /\ i + 1 <= Len(s)
    /\ s[i] = Delimiter[1]
    /\ s[i + 1] = Delimiter[2]

\* The first position at or after `from` where /__/ matches, 0 when none.
FirstMatch(s, from) ==
    LET hits == {i \in from..Len(s) : MatchesAt(s, i)}
    IN  IF hits = {} THEN 0 ELSE CHOOSE i \in hits : \A j \in hits : i <= j

\* String.prototype.split with the regular expression /__/: the scan starts
\* again right after each match, so matches never overlap.
RECURSIVE SplitFrom(_, _)
SplitFrom(s, from) ==
    LET m == FirstMatch(s, from)
    IN  IF m = 0
        THEN <<SubSeq(s, from, Len(s))>>
        ELSE <<SubSeq(s, from, m - 1)>> \o SplitFrom(s, m + 2)

Split(s) == SplitFrom(s, 1)

\* A variant that tags the even indexes bold.
IsBoldIndexFlipped(index) == index % 2 = 0
\* The bold flag of the part at JavaScript index `index` (0-based).
IsBoldIndex(index) == index % 2 = 1

\* parts.forEach((part, index) => ...): parts[k] has JavaScript index k - 1.
\* A variant that counts the parts from 1 instead of 0.
RECURSIVE PushSegmentsOneBased(_, _)
PushSegmentsOneBased(parts, k) ==
    IF k > Len(parts) THEN <<>>
    ELSE (IF Len(parts[k]) > 0
          THEN <<[text |-> parts[k], isBold |-> IsBoldIndex(k)]>>
          ELSE <<>>) \o PushSegmentsOneBased(parts, k + 1)
RECURSIVE PushSegments(_, _)
PushSegments(parts, k) ==
    IF k > Len(parts) THEN <<>>
    ELSE (IF Len(parts[k]) > 0
          THEN <<[text |-> parts[k], isBold |-> IsBoldIndex(k - 1)]>>
          ELSE <<>>) \o PushSegments(parts, k + 1)

\* A variant without the part.length > 0 test.
parseTextKeepEmpty(t) ==
    [k \in 1..Len(Split(t)) |-> [text |-> Split(t)[k], isBold |-> IsBoldIndex(k - 1)]]
\* parseText: the non-empty parts of the split, each with its bold flag.
parseText(t) == PushSegments(Split(t), 1)

\* ------------------------------------------------------------- JS numbers
\* A JavaScript number of the handler: NaN, or a finite value n.  Font
\* sizes, the scale, the padding and the canvas size count whole pixels;
\* measured widths and x/y positions count sub-pixel units (1/SubPx px).
NaN == [nan |-> TRUE, n |-> 0]
Num(i) == [nan |-> FALSE, n |-> i]
Add(a, b) == IF a.nan \/ b.nan THEN NaN ELSE Num(a.n + b.n)
Mul(a, b) == IF a.nan \/ b.nan THEN NaN ELSE Num(a.n * b.n)
Sub(a, b) == IF a.nan \/ b.nan THEN NaN ELSE Num(a.n - b.n)
\* a <= b as JavaScript compares: false when either side is NaN.
Leq(a, b) == ~a.nan /\ ~b.nan /\ a.n <= b.n

\* Sub-pixel units per pixel: TextMetrics.width is a multiple of 1/SubPx px.
SubPx == 4
ToSubPx(a) == IF a.nan THEN NaN ELSE Num(a.n * SubPx)
\* Math.ceil / Math.floor of a value given in sub-pixel units, in whole pixels.
MathCeil(a) == IF a.nan THEN NaN ELSE Num(-((-a.n) \div SubPx))
MathFloor(a) == IF a.nan THEN NaN ELSE Num(a.n \div SubPx)

\* ---------------------------------------------------------------- parseInt
Digits == <<"0", "1", "2", "3", "4", "5", "6", "7", "8", "9">>
IsDigit(c) == \E d \in 1..10 : Digits[d] = c
DigitValue(c) == (CHOOSE d \in 1..10 : Digits[d] = c) - 1

RECURSIVE SkipWhitespace(_)
SkipWhitespace(s) ==
    IF Len(s) > 0 /\ Head(s) = " " THEN SkipWhitespace(Tail(s)) ELSE s

\* The value of the longest prefix of digits of s, continuing from acc.
RECURSIVE DigitsValue(_, _)
DigitsValue(s, acc) ==
    IF Len(s) > 0 /\ IsDigit(Head(s))
    THEN DigitsValue(Tail(s), acc * 10 + DigitValue(Head(s)))
    ELSE acc

\* parseInt(s, 10): leading whitespace is skipped, one sign is read, then the
\* longest run of digits; NaN when there is no digit; what follows is ignored.
parseInt(s) ==
    LET t == SkipWhitespace(s)
        neg == Len(t) > 0 /\ Head(t) = "-"
        u == IF Len(t) > 0 /\ Head(t) \in {"-", "+"} THEN Tail(t) ELSE t
    IN  IF Len(u) > 0 /\ IsDigit(Head(u))
        THEN Num(IF neg THEN -DigitsValue(u, 0) ELSE DigitsValue(u, 0))
        ELSE NaN

\* searchParams.get(name): null when the parameter is absent.
Absent == [present |-> FALSE]
Given(v) == [present |-> TRUE, value |-> v]
\* searchParams.get(name) || fallback: null and the empty string are falsy.
OrDefault(p, empty, fallback) ==
    IF p.present /\ p.value # empty THEN p.value ELSE fallback

\* ------------------------------------------------------------ font registry
\* SUPPORTED_FONTS: a family's configuration is one path (a string) or an
\* object with a regular and a bold path.
RobotoPath == "/fonts/Roboto/Roboto-VariableFont_wdth,wght.ttf"
RobotoItalicPath == "/fonts/Roboto/Roboto-Italic-VariableFont_wdth,wght.ttf"
PatuaOnePath == "/fonts/Patua_One/PatuaOne-Regular.ttf"
SuisseRegularPath == "/fonts/Suisse/suisse-intl-regular.ttf"
SuisseBoldPath == "/fonts/Suisse/suisse-intl-bold.ttf"

SUPPORTED_FONTS ==
    [f \in {"Roboto", "Roboto-Italic", "Patua One", "Suisse"} |->
        CASE f = "Roboto" ->
                [type |-> "object", regular |-> RobotoPath, bold |-> RobotoPath]
          [] f = "Roboto-Italic" -> [type |-> "string", path |-> RobotoItalicPath]
          [] f = "Patua One" -> [type |-> "string", path |-> PatuaOnePath]
          [] f = "Suisse" ->
                [type |-> "object", regular |-> SuisseRegularPath,
                 bold |-> SuisseBoldPath]]

\* Property names every object literal inherits from Object.prototype: the
\* lookup SUPPORTED_FONTS[name] finds them although they are no own key.
ObjectPrototypeKeys ==
    {"constructor", "toString", "valueOf", "hasOwnProperty", "isPrototypeOf",
     "propertyIsEnumerable", "toLocaleString", "__proto__"}

\* SUPPORTED_FONTS[fontFamily as SupportedFont]: an own key gives its
\* configuration, an inherited name gives a truthy value that is neither a
\* string nor has a regular or bold property, anything else is undefined.
FontConfig(family) ==
    IF family \in DOMAIN SUPPORTED_FONTS
    THEN SUPPORTED_FONTS[family]
    ELSE IF family \in ObjectPrototypeKeys
         THEN [type |-> "inherited"]
         ELSE [type |-> "undefined"]

\* path.join(process.cwd(), 'public', fontPath)
Cwd == "/app"
AbsoluteFontPath(fontPath) == Cwd \o "/public" \o fontPath

\* Every font file the configuration names.
FontFiles ==
    {AbsoluteFontPath(p) : p \in {RobotoPath, RobotoItalicPath, PatuaOnePath,
                                  SuisseRegularPath, SuisseBoldPath}}

\* -------------------------------------------------------------------- state
VARIABLES
    registeredFonts,    \* the module-level cache: a Set of cache keys
    backendFonts,       \* the backend's font table: the registerFont calls, in order
    files,              \* the paths fs.existsSync answers true for
    resolved,           \* every <<fontFamily, isBold, handle>> registerLocalFont returned
    pending,            \* requests the host has accepted and not yet handled
    pc,                 \* where the running handler is; "idle" when none runs
    text, fontFamily, fontSize, backgroundColor, scale,
    regularFontFamily, boldFontFamily,
    canvas,             \* <<>> before createCanvas, then <<[width, height]>>
    ctxFont,            \* ctx.font as the backend holds it: [size, family]
    scaledFontSize, segments, totalWidth, padding, width, height, currentX,
    calls,              \* the drawing calls made on ctx, in order
    fsLookups,          \* fs.existsSync calls made by the running handler
    error,              \* what the handler's try block threw, "none" when nothing
    response            \* what the handler returned last

registryVars == <<registeredFonts, backendFonts, files, resolved>>
paramVars == <<text, fontFamily, fontSize, backgroundColor, scale>>
handleVars == <<regularFontFamily, boldFontFamily>>
layoutVars == <<scaledFontSize, segments, totalWidth, padding, width, height, currentX>>
canvasVars == <<canvas, ctxFont, calls>>
vars == <<registryVars, pending, pc, paramVars, handleVars, layoutVars, canvasVars,
          fsLookups, error, response>>

\* ------------------------------------------------------- registerLocalFont
\* const cacheKey = `${fontFamily}${isBold ? '-bold' : ''}`
CacheKey(family, isBold) == IF isBold THEN family \o "-bold" ELSE family

\* A variant that forgets the bold suffix on a cache hit.
CachedHandleUnsuffixed(family, isBold) == family
\* The handle returned on a cache hit.
CachedHandle(family, isBold) ==
    IF isBold THEN family \o "-bold" ELSE family

\* registration.family: the name the face is registered under.
RegistrationFamily(family, isBold) ==
    IF isBold THEN family \o "-bold" ELSE family

\* typeof fontConfig === 'string' ? fontConfig : (isBold ? fontConfig.bold :
\* fontConfig.regular); "undefined" for a value without these properties.
FontPath(fontConfig, isBold) ==
    CASE fontConfig.type = "string" -> fontConfig.path
      [] fontConfig.type = "object" ->
            IF isBold THEN fontConfig.bold ELSE fontConfig.regular
      [] OTHER -> "undefined"

\* What one call does: what it throws ("none" when it returns), the handle it
\* returns, the cache and the backend's table after it, and how many times
\* it asked the file system.
Returned(handle, cache, backend, lookups) ==
    [threw |-> "none", handle |-> handle, cache |-> cache, backend |-> backend,
     lookups |-> lookups]
Thrown(kind, lookups) ==
    [threw |-> kind, handle |-> "", cache |-> registeredFonts,
     backend |-> backendFonts, lookups |-> lookups]

\* A variant that adds the cache key before it looks for the file.
RegisterUncachedCacheFirst(family, isBold) ==
    LET fontConfig == FontConfig(family)
        fontPath == FontPath(fontConfig, isBold)
        regFamily == RegistrationFamily(family, isBold)
    IN  CASE fontConfig.type = "undefined" -> Thrown("UnsupportedFont", 0)
          [] fontPath = "undefined" -> Thrown("TypeError", 0)
          [] AbsoluteFontPath(fontPath) \notin files ->
                [Thrown("FontFileNotFound", 1) EXCEPT
                    !.cache = registeredFonts \cup {CacheKey(family, isBold)}]
          [] OTHER ->
                Returned(regFamily,
                         registeredFonts \cup {CacheKey(family, isBold)},
                         Append(backendFonts,
                                [path |-> AbsoluteFontPath(fontPath), family |-> regFamily]),
                         1)
\* The body of registerLocalFont after the cache test.
RegisterUncached(family, isBold) ==
    LET fontConfig == FontConfig(family)
        fontPath == FontPath(fontConfig, isBold)
        regFamily == RegistrationFamily(family, isBold)
    IN  CASE \* if (!fontConfig) throw new Error(`Font "..." is not supported ...`)
             fontConfig.type = "undefined" -> Thrown("UnsupportedFont", 0)
             \* path.join throws a TypeError for an argument that is no string
          [] fontPath = "undefined" -> Thrown("TypeError", 0)
             \* if (!fs.existsSync(absoluteFontPath)) throw new Error(...)
          [] AbsoluteFontPath(fontPath) \notin files -> Thrown("FontFileNotFound", 1)
             \* registerFont(...); registeredFonts.add(cacheKey); return ...
          [] OTHER ->
                Returned(regFamily,
                         registeredFonts \cup {CacheKey(family, isBold)},
                         Append(backendFonts,
                                [path |-> AbsoluteFontPath(fontPath), family |-> regFamily]),
                         1)

\* A variant that never consults the cache.
registerLocalFontNoCache(family, isBold) == RegisterUncached(family, isBold)
\* registerLocalFont: the cached handle on a hit, else the registration.
registerLocalFont(family, isBold) ==
    IF CacheKey(family, isBold) \in registeredFonts
    THEN Returned(CachedHandle(family, isBold), registeredFonts, backendFonts, 0)
    ELSE RegisterUncached(family, isBold)

\* -------------------------------------------------------- rendering backend
\* The face registered under a family name: the file of the latest
\* registerFont call for it, "fallback" for a name never registered.
FaceOf(family) ==
    LET hits == {k \in 1..Len(backendFonts) : backendFonts[k].family = family}
    IN  IF hits = {} THEN "fallback"
        ELSE backendFonts[CHOOSE k \in hits : \A j \in hits : j <= k].path

\* A glyph's advance in 1/SubPx em: narrow glyphs take one unit, the others
\* two, and the bold Suisse file's glyphs are one unit wider.
NarrowGlyphs == {"i", "l", "!", " ", "_"}
Advance(face, ch) ==
    (IF ch \in NarrowGlyphs THEN 1 ELSE 2)
    + (IF face = AbsoluteFontPath(SuisseBoldPath) THEN 1 ELSE 0)

RECURSIVE SumAdvance(_, _)
SumAdvance(face, t) ==
    IF Len(t) = 0 THEN 0 ELSE Advance(face, Head(t)) + SumAdvance(face, Tail(t))

\* The canvas context's font before any assignment: 10px sans-serif.
DefaultFont == [size |-> 10, family |-> "sans-serif"]

\* ctx.font = `${size}px "${name}"`: the backend ignores a value that is no
\* font, as NaNpx or a negative size is, and keeps the font it had.
SetFont(current, size, name) ==
    IF size.nan \/ size.n < 0 THEN current ELSE [size |-> size.n, family |-> name]

\* ctx.measureText(t).width under the context's font, in sub-pixel units.
MeasureText(font, t) == Num(font.size * SumAdvance(FaceOf(font.family), t))

\* ----------------------------------------------------------- GET: geometry
BasePadding == 8

\* const fontName = segment.isBold ? boldFontFamily : regularFontFamily
FontName(segment) == IF segment.isBold THEN boldFontFamily ELSE regularFontFamily

\* The measure pass: segments.forEach(...) from segment k on, with the
\* context's font and the running total; gives both after the last segment.
RECURSIVE MeasureLoop(_, _, _, _)
MeasureLoop(segs, k, font, total) ==
    IF k > Len(segs) THEN [ctxFont |-> font, totalWidth |-> total]
    ELSE LET f == SetFont(font, scaledFontSize, FontName(segs[k]))
         IN  MeasureLoop(segs, k + 1, f, Add(total, MeasureText(f, segs[k].text)))

\* const padding = basePadding * scale
Padding(s) == Mul(Num(BasePadding), s)

\* A variant that rounds the width down.
CanvasWidthFloor(total, pad) == MathFloor(Add(total, ToSubPx(Mul(pad, Num(2)))))
\* const width = Math.ceil(totalWidth + padding * 2)
CanvasWidth(total, pad) == MathCeil(Add(total, ToSubPx(Mul(pad, Num(2)))))

\* const height = Math.ceil(scaledFontSize + padding * 2)
CanvasHeight(scaledSize, pad) == MathCeil(ToSubPx(Add(scaledSize, Mul(pad, Num(2)))))

\* height / 2, in sub-pixel units.
HalfOf(h) == IF h.nan THEN NaN ELSE Num((h.n * SubPx) \div 2)

\* The cursor after a run of the draw pass.
AdvanceCursor(x, font, t) == Add(x, MeasureText(font, t))

\* The draw pass: segments.forEach(...) from segment k on, with the context's
\* font, the cursor and the calls made so far.
RECURSIVE DrawLoop(_, _, _, _, _)
DrawLoop(segs, k, font, x, made) ==
    IF k > Len(segs) THEN [ctxFont |-> font, currentX |-> x, calls |-> made]
    ELSE LET f == SetFont(font, scaledFontSize, FontName(segs[k]))
             call == [op |-> "fillText", text |-> segs[k].text, x |-> x,
                      y |-> HalfOf(height), font |-> f, fillStyle |-> "black"]
         IN  DrawLoop(segs, k + 1, f, AdvanceCursor(x, f, segs[k].text),
                      Append(made, call))

\* --------------------------------------------------------------- GET: steps
HelloWorld == <<"H", "e", "l", "l", "o", " ", "W", "o", "r", "l", "d">>
NoResponse == [status |-> 0, contentType |-> "", width |-> NaN, height |-> NaN]

\* The handler's locals before it assigns them.
LocalsCleared ==
    /\ regularFontFamily' = ""
    /\ boldFontFamily' = ""
    /\ canvas' = <<>>
    /\ ctxFont' = DefaultFont
    /\ scaledFontSize' = Num(0)
    /\ segments' = <<>>
    /\ totalWidth' = Num(0)
    /\ padding' = Num(0)
    /\ width' = Num(0)
    /\ height' = Num(0)
    /\ currentX' = Num(0)
    /\ calls' = <<>>
    /\ fsLookups' = 0

\* The parameters once the handler has returned and its scope is gone.
ParamsCleared ==
    /\ text' = <<>>
    /\ fontFamily' = ""
    /\ fontSize' = Num(0)
    /\ backgroundColor' = ""
    /\ scale' = Num(0)

\* The host accepts a request while the handler of another may be running.
Arrive ==
    /\ pending < MaxPending
    /\ pending' = pending + 1
    /\ UNCHANGED <<registryVars, pc, paramVars, handleVars, layoutVars, canvasVars,
                   fsLookups, error, response>>

\* The handler runs to its end without awaiting anything, so the next one
\* starts only when none is running.  It reads the query parameters, each
\* with its default.
ReadParams(Texts, Fonts, Sizes, Colors, Scales) ==
    /\ pc = "idle"
    /\ pending > 0
    /\ pending' = pending - 1
    /\ \E pText \in Texts, pFont \in Fonts, pSize \in Sizes, pColor \in Colors,
          pScale \in Scales :
        /\ text' = OrDefault(pText, <<>>, HelloWorld)
        /\ fontFamily' = OrDefault(pFont, "", "Suisse")
        /\ fontSize' = parseInt(OrDefault(pSize, <<>>, <<"2", "4">>))
        /\ backgroundColor' = OrDefault(pColor, "", "transparent")
        /\ scale' = parseInt(OrDefault(pScale, <<>>, <<"2">>))
    /\ LocalsCleared
    /\ error' = "none"
    /\ response' = NoResponse
    /\ pc' = "regRegular"
    /\ UNCHANGED registryVars

\* const regularFontFamily = registerLocalFont(fontFamily, false)
RegisterRegular ==
    /\ pc = "regRegular"
    /\ LET r == registerLocalFont(fontFamily, FALSE)
       IN  /\ registeredFonts' = r.cache
           /\ backendFonts' = r.backend
           /\ fsLookups' = fsLookups + r.lookups
           /\ IF r.threw = "none"
              THEN /\ regularFontFamily' = r.handle
                   /\ resolved' = resolved \cup {<<fontFamily, FALSE, r.handle>>}
                   /\ pc' = "regBold"
                   /\ UNCHANGED error
              ELSE /\ error' = r.threw
                   /\ pc' = "catch"
                   /\ UNCHANGED <<regularFontFamily, resolved>>
    /\ UNCHANGED <<files, pending, paramVars, boldFontFamily, layoutVars, canvasVars,
                   response>>

\* const boldFontFamily = registerLocalFont(fontFamily, true)
RegisterBold ==
    /\ pc = "regBold"
    /\ LET r == registerLocalFont(fontFamily, TRUE)
       IN  /\ registeredFonts' = r.cache
           /\ backendFonts' = r.backend
           /\ fsLookups' = fsLookups + r.lookups
           /\ IF r.threw = "none"
              THEN /\ boldFontFamily' = r.handle
                   /\ resolved' = resolved \cup {<<fontFamily, TRUE, r.handle>>}
                   /\ pc' = "canvas"
                   /\ UNCHANGED error
              ELSE /\ error' = r.threw
                   /\ pc' = "catch"
                   /\ UNCHANGED <<boldFontFamily, resolved>>
    /\ UNCHANGED <<files, pending, paramVars, regularFontFamily, layoutVars, canvasVars,
                   response>>

\* createCanvas(1, 1); scaledFontSize = fontSize * scale; parseText(text)
CreateCanvas ==
    /\ pc = "canvas"
    /\ canvas' = <<[width |-> Num(1), height |-> Num(1)]>>
    /\ scaledFontSize' = Mul(fontSize, scale)
    /\ segments' = parseText(text)
    /\ pc' = "measure"
    /\ UNCHANGED <<registryVars, pending, paramVars, handleVars, ctxFont, calls,
                   totalWidth, padding, width, height, currentX, fsLookups, error,
                   response>>

\* let totalWidth = 0; segments.forEach(... totalWidth += metrics.width)
MeasureSegments ==
    /\ pc = "measure"
    /\ LET m == MeasureLoop(segments, 1, ctxFont, Num(0))
       IN  /\ totalWidth' = m.totalWidth
           /\ ctxFont' = m.ctxFont
    /\ pc' = "size"
    /\ UNCHANGED <<registryVars, pending, paramVars, handleVars, canvas, calls,
                   scaledFontSize, segments, padding, width, height, currentX,
                   fsLookups, error, response>>

\* padding, width, height; the canvas is resized, cleared and, unless the
\* background is 'transparent', filled.
SizeCanvas ==
    /\ pc = "size"
    /\ padding' = Padding(scale)
    /\ width' = CanvasWidth(totalWidth, padding')
    /\ height' = CanvasHeight(scaledFontSize, padding')
    /\ canvas' = <<[width |-> width', height |-> height']>>
    /\ calls' =
        <<[op |-> "clearRect", w |-> width', h |-> height']>>
        \o (IF backgroundColor # "transparent"
            THEN <<[op |-> "fillRect", w |-> width', h |-> height',
                    fillStyle |-> backgroundColor]>>
            ELSE <<>>)
    /\ pc' = "draw"
    /\ UNCHANGED <<registryVars, pending, paramVars, handleVars, ctxFont,
                   scaledFontSize, segments, totalWidth, currentX, fsLookups, error,
                   response>>

\* let currentX = padding; segments.forEach(... fillText ... currentX += ...)
DrawSegments ==
    /\ pc = "draw"
    /\ LET d == DrawLoop(segments, 1, ctxFont, ToSubPx(padding), calls)
       IN  /\ currentX' = d.currentX
           /\ ctxFont' = d.ctxFont
           /\ calls' = d.calls
    /\ pc' = "respond"
    /\ UNCHANGED <<registryVars, pending, paramVars, handleVars, canvas,
                   scaledFontSize, segments, totalWidth, padding, width, height,
                   fsLookups, error, response>>

\* canvas.toBuffer('image/png'); return new NextResponse(buffer, ...)
Respond ==
    /\ pc = "respond"
    /\ response' = [status |-> 200, contentType |-> "image/png",
                    width |-> canvas[1].width, height |-> canvas[1].height]
    /\ pc' = "idle"
    /\ ParamsCleared
    /\ LocalsCleared
    /\ UNCHANGED <<registryVars, pending, error>>

\* catch (error): NextResponse.json({ error: ... }, { status: 500 })
Catch ==
    /\ pc = "catch"
    /\ response' = [status |-> 500, contentType |-> "application/json",
                    width |-> NaN, height |-> NaN]
    /\ pc' = "idle"
    /\ ParamsCleared
    /\ LocalsCleared
    /\ UNCHANGED <<registryVars, pending, error>>

Pipeline ==
    \/ RegisterRegular
    \/ RegisterBold
    \/ CreateCanvas
    \/ MeasureSegments
    \/ SizeCanvas
    \/ DrawSegments
    \/ Respond
    \/ Catch

\* ------------------------------------------------------------ specifications
ProcessStart ==
    /\ registeredFonts = {}
    /\ backendFonts = <<>>
    /\ resolved = {}
    /\ pending = 0
    /\ fontFamily = ""
    /\ fontSize = Num(0)
    /\ backgroundColor = ""
    /\ scale = Num(0)
    /\ regularFontFamily = ""
    /\ boldFontFamily = ""
    /\ canvas = <<>>
    /\ ctxFont = DefaultFont
    /\ scaledFontSize = Num(0)
    /\ segments = <<>>
    /\ totalWidth = Num(0)
    /\ padding = Num(0)
    /\ width = Num(0)
    /\ height = Num(0)
    /\ currentX = Num(0)
    /\ calls = <<>>
    /\ fsLookups = 0
    /\ error = "none"
    /\ response = NoResponse

\* The font registry under requests for every kind of family name, on a disk
\* that holds any of the configured font files.
FontParams ==
    {Absent, Given(""), Given("Roboto"), Given("Roboto-Italic"), Given("Patua One"),
     Given("Suisse"), Given("Comic Sans"), Given("Suisse-bold"), Given("constructor")}

Init ==
    /\ ProcessStart
    /\ files \in SUBSET FontFiles
    /\ text = <<>>
    /\ pc = "idle"

Next ==
    \/ Arrive
    \/ ReadParams({Absent, Given(<<"a", "_", "_", "b">>)}, FontParams, {Absent},
                  {Absent}, {Absent, Given(<<"1">>)})
    \/ Pipeline

Spec == Init /\ [][Next]_vars

\* The layout pipeline under every kind of text, size, colour and scale
\* parameter, with every font file on disk.
TextParams ==
    {Absent, Given(<<"H", "i">>), Given(<<"a", "_", "_", "b">>),
     Given(<<"_", "_", "b", "_", "_", "i", "!">>), Given(<<"i", "_", "_">>)}
SizeParams ==
    {Absent, Given(<<"9">>), Given(<<"1", "2", "p", "x">>), Given(<<"-", "5">>),
     Given(<<"a", "b", "c">>)}
ColorParams == {Absent, Given("#ff0000")}
ScaleParams ==
    {Absent, Given(<<>>), Given(<<"1">>), Given(<<"3">>), Given(<<"0">>),
     Given(<<"-", "1">>), Given(<<"2", ".", "5">>), Given(<<"x">>)}
RenderFontParams == {Absent, Given("Roboto"), Given("Comic Sans")}

InitRender ==
    /\ ProcessStart
    /\ files = FontFiles
    /\ text = <<>>
    /\ pc = "idle"

NextRender ==
    \/ Arrive
    \/ ReadParams(TextParams, RenderFontParams, SizeParams, ColorParams,
                  ScaleParams)
    \/ Pipeline

SpecRender == InitRender /\ [][NextRender]_vars

\* The markup parser on every string of at most MaxLen characters.
ParseAlphabet == {"a", "b", "_"}

InitParse ==
    /\ ProcessStart
    /\ files = FontFiles
    /\ text \in StringsUpTo(ParseAlphabet, MaxLen)
    /\ pc = "parse"

ParseCall ==
    /\ pc = "parse"
    /\ segments' = parseText(text)
    /\ pc' = "parsed"
    /\ UNCHANGED <<registryVars, pending, paramVars, handleVars, canvasVars,
                   scaledFontSize, totalWidth, padding, width, height, currentX,
                   fsLookups, error, response>>

NextParse == ParseCall

SpecParse == InitParse /\ [][NextParse]_vars

\* =================================================================== claims
\* ------------------------------------------------- the parser, independently
\* The start of the run of underscores that position i of s lies in.
RunStart(s, i) ==
    CHOOSE j \in 1..i :
        /\ \A k \in j..i : s[k] = "_"
        /\ j = 1 \/ s[j - 1] # "_"

\* Where the delimiter occurs in s, reading left to right without overlap: at
\* every even offset of a run of underscores that leaves two of them.
DelimiterStarts(s) ==
    {i \in 1..Len(s) - 1 :
        s[i] = "_" /\ s[i + 1] = "_" /\ (i - RunStart(s, i)) % 2 = 0}

\* The k-th smallest element of a set of numbers.
Nth(S, k) == CHOOSE x \in S : Cardinality({y \in S : y < x}) = k - 1

\* The part of s with index k (0-based) of the full split.
PartAt(s, k) ==
    LET D == DelimiterStarts(s)
        from == IF k = 0 THEN 1 ELSE Nth(D, k) + 2
        to == IF k = Cardinality(D) THEN Len(s) ELSE Nth(D, k + 1) - 1
    IN  SubSeq(s, from, to)

\* The indexes of the non-empty parts of s.
KeptParts(s) == {k \in 0..Cardinality(DelimiterStarts(s)) : PartAt(s, k) # <<>>}

EndsWithUnderscore(t) == Len(t) > 0 /\ t[Len(t)] = "_"
HasDelimiter(t) == \E i \in 1..Len(t) : MatchesAt(t, i)

\* C1: parseText returns exactly the non-empty parts of the split on every
\* occurrence of `__`, in their order, each bold iff its index in the full
\* split is odd; no run is empty, and the call is possible for every string.
C1_ParseTextIsFilteredSplit ==
    /\ pc = "parse" => ENABLED ParseCall
    /\ pc = "parsed" =>
        /\ Len(segments) = Cardinality(KeptParts(text))
        /\ \A j \in 1..Len(segments) :
            LET k == Nth(KeptParts(text), j)
            IN  /\ segments[j].text = PartAt(text, k)
                /\ segments[j].isBold = (k % 2 = 1)
                /\ segments[j].text # <<>>

\* A parsed string whose split has empty parts (it starts and ends with a
\* delimiter) and both a bold and a non-bold run.
C1_Witness ==
    /\ pc = "parsed"
    /\ Cardinality(DelimiterStarts(text)) = 3
    /\ Len(segments) = 2
    /\ segments[1].isBold
    /\ ~segments[2].isBold

\* The three runs A (non-bold), B (bold), C (non-bold).
ThreeRuns(A, B, C) ==
    <<[text |-> A, isBold |-> FALSE], [text |-> B, isBold |-> TRUE],
      [text |-> C, isBold |-> FALSE]>>

\* C2 as stated: for every way of reading the text as A__B__C, parseText
\* returns the three runs A (non-bold), B (bold), C (non-bold).
C2_Original ==
    pc = "parsed" =>
        \A i, j \in 1..Len(text) :
            (MatchesAt(text, i) /\ MatchesAt(text, j) /\ i + 2 <= j) =>
                segments = ThreeRuns(SubSeq(text, 1, i - 1),
                                     SubSeq(text, i + 2, j - 1),
                                     SubSeq(text, j + 2, Len(text)))

\* A, B and C are non-empty, none holds the delimiter, and neither A nor B
\* ends with an underscore.
PlainABC(A, B, C) ==
    /\ A # <<>> /\ B # <<>> /\ C # <<>>
    /\ ~HasDelimiter(A) /\ ~HasDelimiter(B) /\ ~HasDelimiter(C)
    /\ ~EndsWithUnderscore(A) /\ ~EndsWithUnderscore(B)

\* C2 amended: for every text A__B__C where A, B and C are non-empty and hold
\* no `__`, and neither A nor B ends with `_`, parseText returns the three
\* runs A (non-bold), B (bold), C (non-bold).
C2_ThreeRuns ==
    pc = "parsed" =>
        \A i, j \in 1..Len(text) :
            LET A == SubSeq(text, 1, i - 1)
                B == SubSeq(text, i + 2, j - 1)
                C == SubSeq(text, j + 2, Len(text))
            IN  (MatchesAt(text, i) /\ MatchesAt(text, j) /\ i + 2 <= j
                 /\ PlainABC(A, B, C)) =>
                    segments = ThreeRuns(A, B, C)

\* A parsed text of the form A__B__C with plain A, B and C, where C starts
\* with an underscore.
C2_Witness ==
    /\ pc = "parsed"
    /\ \E i, j \in 1..Len(text) :
        /\ MatchesAt(text, i) /\ MatchesAt(text, j) /\ i + 2 <= j
        /\ PlainABC(SubSeq(text, 1, i - 1), SubSeq(text, i + 2, j - 1),
                    SubSeq(text, j + 2, Len(text)))
        /\ text[j + 2] = "_"
    /\ Len(segments) = 3

\* C3 as stated: when the delimiter occurs an odd number of times, the last
\* run parseText returns is bold.
C3_Original ==
    (pc = "parsed" /\ Cardinality(DelimiterStarts(text)) % 2 = 1) =>
        /\ Len(segments) > 0
        /\ segments[Len(segments)].isBold

\* C3 amended: when the delimiter occurs an odd number of times (occurrences
\* counted left to right without overlap) and text follows the last
\* occurrence, the last run parseText returns is bold.
C3_TrailingBold ==
    (/\ pc = "parsed"
     /\ Cardinality(DelimiterStarts(text)) % 2 = 1
     /\ PartAt(text, Cardinality(DelimiterStarts(text))) # <<>>) =>
        /\ Len(segments) > 0
        /\ segments[Len(segments)].isBold
        /\ segments[Len(segments)].text =
                PartAt(text, Cardinality(DelimiterStarts(text)))

\* A parsed text with three occurrences of the delimiter and text after the
\* last one.
C3_Witness ==
    /\ pc = "parsed"
    /\ Cardinality(DelimiterStarts(text)) = 3
    /\ PartAt(text, 3) # <<>>
    /\ Len(segments) >= 2

\* -------------------------------------------------------- the font registry
\* The step is the handler's registerLocalFont(fontFamily, isBold) call.
Calling(isBold) == pc = (IF isBold THEN "regBold" ELSE "regRegular") /\ pc' # pc
\* The handle the call just made returned.
HandleAfter(isBold) == IF isBold THEN boldFontFamily' ELSE regularFontFamily'

\* C4: once registerLocalFont(family, isBold) has succeeded, every later call
\* with the same arguments returns the handle of the first call, calls
\* neither registerFont nor fs.existsSync, and leaves the cache unchanged.
C4_RegistrationIdempotent ==
    [][\A isBold \in BOOLEAN : \A t \in resolved :
        (Calling(isBold) /\ t[1] = fontFamily /\ t[2] = isBold) =>
            /\ pc' # "catch"
            /\ HandleAfter(isBold) = t[3]
            /\ backendFonts' = backendFonts
            /\ fsLookups' = fsLookups
            /\ registeredFonts' = registeredFonts]_vars

\* A handler that got both handles of Suisse from the cache: both faces are
\* in the backend's table and it never asked the file system.
C4_Witness ==
    /\ pc = "canvas"
    /\ fontFamily = "Suisse"
    /\ regularFontFamily = "Suisse"
    /\ boldFontFamily = "Suisse-bold"
    /\ fsLookups = 0
    /\ Len(backendFonts) >= 2

\* The names the backend holds a face under.
BackendNames == {backendFonts[k].family : k \in 1..Len(backendFonts)}
TimesRegistered(name) ==
    Cardinality({k \in 1..Len(backendFonts) : backendFonts[k].family = name})

\* C5: however the host's requests arrive and follow each other, every key
\* is registered with the backend exactly once when it is first resolved and
\* never again, and all requests that resolve a key get one and the same
\* handle.
C5_RegisteredOncePerKey ==
    /\ BackendNames = registeredFonts
    /\ \A name \in BackendNames : TimesRegistered(name) = 1
    /\ \A t, u \in resolved : (t[1] = u[1] /\ t[2] = u[2]) => t[3] = u[3]
    /\ \A t \in resolved : t[3] \in registeredFonts

\* A request that arrived while others were accepted resolves both Roboto
\* faces from the cache, with two more requests waiting.
C5_Witness ==
    /\ pending = MaxPending
    /\ pc = "canvas"
    /\ fontFamily = "Roboto"
    /\ fsLookups = 0
    /\ TimesRegistered("Roboto") = 1
    /\ TimesRegistered("Roboto-bold") = 1

\* C6 as stated: a request for a family that is no key of SUPPORTED_FONTS
\* fails in font resolution with the unsupported-font error, and no canvas is
\* created and nothing is measured or drawn for it.
C6_Original ==
    (pc \notin {"idle", "parse", "parsed"} /\ fontFamily \notin DOMAIN SUPPORTED_FONTS) =>
        /\ pc \in {"regRegular", "regBold", "catch"}
        /\ canvas = <<>>
        /\ calls = <<>>
        /\ pc = "catch" => error = "UnsupportedFont"

\* C6, the part the code keeps: no request for a family outside
\* SUPPORTED_FONTS gets past font resolution, so none gets a canvas.
C6_NoBitmapForUnknownFamily ==
    (pc \notin {"idle", "parse", "parsed"} /\ fontFamily \notin DOMAIN SUPPORTED_FONTS) =>
        /\ pc \in {"regRegular", "regBold", "catch"}
        /\ canvas = <<>>
        /\ calls = <<>>

\* The configured path of a backend name, "" for a name of no configured face.
ConfiguredPath(name) ==
    LET faces == {<<f, b>> \in (DOMAIN SUPPORTED_FONTS) \X BOOLEAN :
                    RegistrationFamily(f, b) = name}
    IN  IF faces = {} THEN ""
        ELSE LET fb == CHOOSE x \in faces : TRUE
             IN  AbsoluteFontPath(FontPath(SUPPORTED_FONTS[fb[1]], fb[2]))

RegistryConsistent ==
    /\ \A key \in registeredFonts : key \in BackendNames
    /\ \A k \in 1..Len(backendFonts) :
        /\ backendFonts[k].family \in
                {f : f \in DOMAIN SUPPORTED_FONTS}
                \cup {f \o "-bold" : f \in DOMAIN SUPPORTED_FONTS}
        /\ backendFonts[k].path = ConfiguredPath(backendFonts[k].family)
        /\ backendFonts[k].path \in files
    /\ \A k, j \in 1..Len(backendFonts) :
        backendFonts[k].family = backendFonts[j].family => k = j

\* C9: the cache only grows; every key in it names a face the backend holds
\* under `family` or `family-bold`, no two faces share a backend name; and a
\* call that throws leaves the cache and the backend's table as they were.
C9_RegistryInvariant ==
    /\ []RegistryConsistent
    /\ [][/\ registeredFonts \subseteq registeredFonts'
          /\ (pc \in {"regRegular", "regBold"} /\ pc' = "catch") =>
                /\ registeredFonts' = registeredFonts
                /\ backendFonts' = backendFonts]_vars

\* The bold call fails on a missing file after the regular call registered
\* its face.
C9_Witness ==
    /\ pc = "catch"
    /\ error = "FontFileNotFound"
    /\ fontFamily = "Suisse"
    /\ regularFontFamily = "Suisse"
    /\ fsLookups = 2
    /\ registeredFonts = {"Suisse"}

\* ------------------------------------------------------ the layout pipeline
\* The font the context holds when run i is measured or drawn: the run's
\* face at the scaled size, or the context's initial font when the scaled
\* size is no font size.
RunFont(i) ==
    IF scaledFontSize.nan \/ scaledFontSize.n < 0
    THEN DefaultFont
    ELSE [size |-> scaledFontSize.n,
          family |-> IF segments[i].isBold THEN boldFontFamily
                     ELSE regularFontFamily]

\* w_i: the width of run i, in sub-pixel units.
RunWidth(i) == MeasureText(RunFont(i), segments[i].text).n

\* w_1 + ... + w_i
RECURSIVE WidthOfFirst(_)
WidthOfFirst(i) == IF i = 0 THEN 0 ELSE WidthOfFirst(i - 1) + RunWidth(i)

\* p is the least whole number of pixels that is at least v sub-pixel units.
IsCeilOf(p, v) == p * SubPx >= v /\ (p - 1) * SubPx < v

\* The canvas height of a request with this font size and scale.
HeightFor(size, s) == CanvasHeight(Mul(size, s), Padding(s))

C8_Original ==
    pc \in {"regRegular", "regBold", "canvas", "measure", "size", "draw", "respond",
            "catch"} =>
        /\ ~scale.nan
        /\ scale.n >= 1
        /\ text # <<>>
        /\ fontFamily # ""
        /\ backgroundColor # ""

\* The fillText calls among the drawing calls, in order.
FillTextCalls == SelectSeq(calls, LAMBDA c : c.op = "fillText")

\* C10 as stated: the draw pass makes one fillText call per run, in order;
\* run i is drawn at x = padding + the widths of the runs before it, each
\* width measured under the font the measure pass used; after the last run
\* the cursor is padding + totalWidth, which is at most width - padding.
C10_Original ==
    pc = "respond" =>
        /\ Len(FillTextCalls) = Len(segments)
        /\ \A i \in 1..Len(segments) :
            /\ FillTextCalls[i].text = segments[i].text
            /\ FillTextCalls[i].font = RunFont(i)
            /\ FillTextCalls[i].x = Add(ToSubPx(padding), Num(WidthOfFirst(i - 1)))
        /\ currentX = Add(ToSubPx(padding), totalWidth)
        /\ Leq(currentX, ToSubPx(Sub(width, padding)))

\* C10 for the requests whose scale parameter is a number: there the draw
\* pass is as the claim says.
C10_DrawPassWithNumericScale ==
    (pc = "respond" /\ ~scale.nan) =>
        /\ Len(FillTextCalls) = Len(segments)
        /\ \A i \in 1..Len(segments) :
            /\ FillTextCalls[i].text = segments[i].text
            /\ FillTextCalls[i].font = RunFont(i)
            /\ FillTextCalls[i].x = Add(ToSubPx(padding), Num(WidthOfFirst(i - 1)))
        /\ currentX = Add(ToSubPx(padding), totalWidth)
        /\ Leq(currentX, ToSubPx(Sub(width, padding)))

====
